---- MODULE Spec2Model ----
(***************************************************************************)
(* Model of the streaming chat proxy (POST handler of the chat route).     *)
(* One behaviour is the handling of one POST request: the auth gate, the   *)
(* body validation, the per-item attachment resolution (fetch, upload,     *)
(* status polling), the mode selection, the upstream generation call and   *)
(* the relay of the upstream chunk sequence as an event stream.            *)
(* The upstream (fetch, file service, generation API) is the environment:  *)
(* each of its answers is a nondeterministic choice.                       *)
(***************************************************************************)
EXTENDS Integers, Sequences, FiniteSets, TLC

\* ------------------------------------------------------------------ bounds
MaxItems == 2        \* longest `contents` list of a request
MaxProcessing == 2   \* most PROCESSING answers of the file service per file
MaxChunks == 2       \* most chunks the upstream producer yields
MaxChecks == 4       \* most status checks followed for one file

\* -------------------------------------------------------- JavaScript values
Undefined == [t |-> "undefined"]
Null == [t |-> "null"]
Str(s) == [t |-> "string", v |-> s]
Arr(a) == [t |-> "array", v |-> a]
Obj(o) == [t |-> "object", v |-> o]
Chars(cs) == [t |-> "chars", v |-> cs]   \* a string kept as its characters

\* JavaScript truthiness of the values used here (`!x` is Falsy(x)).
Falsy(x) == \/ x.t = "undefined"
            \/ x.t = "null"
            \/ (x.t = "string" /\ x.v = "")
            \/ (x.t = "chars" /\ Len(x.v) = 0)

\* Array.isArray(x)
IsArray(x) == x.t = "array"

\* x == null (loose equality: null or undefined)
IsNullish(x) == x.t \in {"undefined", "null"}

\* ------------------------------------------------------ request domains
SecretKeys == {Undefined, Str(""), Str("s3cret")}
ApiKeys == {Undefined, Str("gm-key")}
AuthHeaders == {Null, Str("Bearer s3cret"), Str("Bearer "), Str("s3cret"),
                Str("Bearer wrong")}

BinaryKinds == {"image", "audio", "video", "pdf"}

MimeOf(kind) == CASE kind = "image" -> "image/png"
                  [] kind = "audio" -> "audio/mp3"
                  [] kind = "video" -> "video/mp4"
                  [] OTHER -> "application/pdf"

TextItems == {[type |-> "text", data |-> Str(d), mimeType |-> Undefined] :
                 d \in {"hi", "yo"}}
\* Binary items: each kind with a field missing, and the well-formed items of
\* the kinds in ResolvedKinds.
ResolvedKinds == {"image", "pdf"}
BinaryItem(k, f) ==
    [type |-> k,
     data |-> IF f = "nodata" THEN Undefined ELSE Str("https://cdn/f"),
     mimeType |-> IF f = "nomime" THEN Undefined ELSE Str(MimeOf(k))]
BinaryItems == {BinaryItem(k, f) : k \in BinaryKinds, f \in {"nodata", "nomime"}}
                  \cup {BinaryItem(k, "ok") : k \in ResolvedKinds}
UnknownItems == {[type |-> "image_base64", data |-> Str("aGk="),
                  mimeType |-> Str("image/png")]}
Items == TextItems \cup BinaryItems \cup UnknownItems

ItemLists == UNION {[1..n -> Items] : n \in 0..MaxItems}

ContentsDomain == {Undefined, Str("not-a-list")} \cup {Arr(l) : l \in ItemLists}
HistoryDomain == {Undefined, Arr(<<>>),
                  Arr(<<[role |-> "user", parts |-> <<[text |-> Str("q")]>>],
                        [role |-> "model", parts |-> <<[text |-> Str("a")]>>]>>)}
ModelDomain == {Undefined, Str("gemini-2.5-pro")}
ConfigDomain == {Undefined, Obj({<<"temperature", 1>>, <<"systemInstruction", "be brief">>})}

Bodies == [contents : ContentsDomain, history : HistoryDomain,
           model : ModelDomain, config : ConfigDomain]

\* Values a failing await can throw: an Error with a message, or any other value
\* (`str` is its String() form).
Err(m) == [isError |-> TRUE, message |-> m, str |-> "Error: " \o m]
NonErr(s) == [isError |-> FALSE, message |-> "", str |-> s]
Throwables == {Err("upstream failure"), NonErr("boom")}

NoValue == [t |-> "none"]

VARIABLES
    env,                  \* process.env: PROXY_SECRET_KEY, GEMINI_API_KEY
    receivedAuthHeader,   \* request.headers.get('Authorization')
    body,                 \* the parsed request body (NoValue before parsing)
    pc,                   \* position of the handler
    modelName,            \* local modelName
    generationConfig,     \* local generationConfig
    i,                    \* position of the content loop in body.contents
    currentContentParts,  \* local currentContentParts
    file,                 \* local file (answer of ai.files.upload)
    getFile,              \* local getFile (latest answer of ai.files.get)
    resultStream,         \* local resultStream
    response,             \* the HTTP response returned (NoValue: none yet)
    stream,               \* the ReadableStream of a 200 response
    thrown,               \* exception raised so far, and where
    calls,                \* upstream: the operations received, in order
    fileService,          \* upstream: the uploaded file's status script
    produced,             \* upstream: chunks the producer has yielded
    timer                 \* timer time between the status checks of the file (ms)

vars == <<env, receivedAuthHeader, body, pc, modelName, generationConfig, i,
          currentContentParts, file, getFile, resultStream, response, stream,
          thrown, calls, fileService, produced, timer>>

\* ------------------------------------------------------------- responses
\* NextResponse.json({error}, {status})
JsonError(status, msg) == [status |-> status, error |-> msg]

\* new Response(stream, {headers}): status 200, event-stream body
SseResponse == [status |-> 200, error |-> "",
                contentType |-> "text/event-stream; charset=utf-8"]

\* The error texts of the handler (a backquote of the source is written ').
MsgUnauthorized == "Unauthorized: Invalid or missing proxy secret key"
MsgContentsRequired == "Invalid request: 'contents' array is required and cannot be empty."
MsgNoApiKey == "API Key is not configured on the server"
MsgMissingFields(type) == "Invalid request: content of type '" \o type \o "' must have mimeType and data."
MsgUnsupportedType == "Invalid request: unsupported content type."
MsgNoParts == "Invalid request: 'contents' array resulted in no processable parts."
MsgInternal == "An internal server error occurred."

NoStream == [state |-> "none", records |-> <<>>]
NoThrow == [where |-> "none"]
\* sinceCheck: time spent in setTimeout since the latest status check;
\* gaps: that time as it stood at each status check after the first.
NoTimer == [sinceCheck |-> 0, gaps |-> <<>>]

Init ==
    /\ env \in [PROXY_SECRET_KEY : SecretKeys, GEMINI_API_KEY : ApiKeys]
    /\ receivedAuthHeader \in AuthHeaders
    /\ body = NoValue
    /\ pc = "auth"
    /\ modelName = NoValue
    /\ generationConfig = NoValue
    /\ i = 1
    /\ currentContentParts = <<>>
    /\ file = NoValue
    /\ getFile = NoValue
    /\ resultStream = NoValue
    /\ response = NoValue
    /\ stream = NoStream
    /\ thrown = NoThrow
    /\ calls = <<>>
    /\ fileService = NoValue
    /\ produced = <<>>
    /\ timer = NoTimer

\* ---------------------------------------------------------------- catch
\* catch (error): the message of an Error, else the fixed generic message.
CatchMessage(e) == IF e.isError THEN e.message
                   ELSE MsgInternal

\* The handler's try/catch: an exception raised while the handler runs ends
\* the request with a 500.
Catch(e, where) ==
    /\ thrown' = [where |-> where, value |-> e]
    /\ response' = JsonError(500, CatchMessage(e))
    /\ pc' = "done"

\* The locals of one turn of the content loop go out of scope when the turn
\* ends or is left by an exception.
LeaveTurn ==
    /\ file' = NoValue
    /\ getFile' = NoValue
    /\ fileService' = NoValue
    /\ timer' = NoTimer

\* ------------------------------------------------------------- auth gate
\* Variant: the gate without the `!proxySecretKey` test.
AuthOkNoEmptyTest(proxySecretKey, header) ==
    header = Str("Bearer " \o (IF proxySecretKey.t = "string" THEN proxySecretKey.v
                               ELSE "undefined"))

AuthOk(proxySecretKey, header) ==
    ~ (Falsy(proxySecretKey) \/ header # Str("Bearer " \o proxySecretKey.v))

AuthGate ==
    /\ pc = "auth"
    /\ IF AuthOk(env.PROXY_SECRET_KEY, receivedAuthHeader)
       THEN /\ pc' = "parse"
            /\ UNCHANGED response
       ELSE /\ response' = JsonError(401, MsgUnauthorized)
            /\ pc' = "done"
    /\ UNCHANGED <<env, receivedAuthHeader, body, modelName, generationConfig, i,
                   currentContentParts, file, getFile, resultStream, stream,
                   thrown, calls, fileService, produced, timer>>

\* ------------------------------------------------------- body validation
\* Variant: the contents check without the length test.
ContentsInvalidNoLength(contents) ==
    \/ Falsy(contents)
    \/ ~ IsArray(contents)

\* !body.contents || !Array.isArray(body.contents) || body.contents.length === 0
ContentsInvalid(contents) ==
    \/ Falsy(contents)
    \/ ~ IsArray(contents)
    \/ Len(contents.v) = 0

\* const modelName = body.model || "gemini-2.5-flash"
DefaultModel == Str("gemini-2.5-flash")
ModelNameOf(b) == IF Falsy(b.model) THEN DefaultModel ELSE b.model

\* const generationConfig = {...body.config}
SpreadConfig(config) == IF IsNullish(config) THEN Obj({}) ELSE Obj(config.v)

\* Variant: every item is validated before the first one is resolved.
ParseBodyValidatesFirst ==
    /\ pc = "parse"
    /\ \/ /\ Catch(Err("Unexpected token in JSON"), "parse")
          /\ UNCHANGED <<body, modelName, generationConfig>>
       \/ \E b \in Bodies :
            /\ body' = b
            /\ IF ContentsInvalid(b.contents)
               THEN /\ response' = JsonError(400, MsgContentsRequired)
                    /\ pc' = "done"
                    /\ UNCHANGED <<modelName, generationConfig>>
               ELSE IF Falsy(env.GEMINI_API_KEY)
               THEN /\ response' = JsonError(500, MsgNoApiKey)
                    /\ pc' = "done"
                    /\ UNCHANGED <<modelName, generationConfig>>
               ELSE LET bad == {n \in 1..Len(b.contents.v) :
                                  \/ b.contents.v[n].type \notin {"text", "image", "audio", "video", "pdf"}
                                  \/ /\ b.contents.v[n].type # "text"
                                     /\ \/ Falsy(b.contents.v[n].mimeType)
                                        \/ Falsy(b.contents.v[n].data)}
                    IN IF bad # {}
                       THEN /\ response' = JsonError(400, MsgUnsupportedType)
                            /\ pc' = "done"
                            /\ UNCHANGED <<modelName, generationConfig>>
                       ELSE /\ modelName' = ModelNameOf(b)
                            /\ generationConfig' = SpreadConfig(b.config)
                            /\ pc' = "loop"
                            /\ UNCHANGED response
            /\ UNCHANGED thrown
    /\ UNCHANGED <<env, receivedAuthHeader, i, currentContentParts, file, getFile,
                   resultStream, stream, calls, fileService, produced, timer>>

\* Variant: the API-key check made before the contents check.
ParseBodyKeyFirst ==
    /\ pc = "parse"
    /\ \/ /\ Catch(Err("Unexpected token in JSON"), "parse")
          /\ UNCHANGED <<body, modelName, generationConfig>>
       \/ \E b \in Bodies :
            /\ body' = b
            /\ IF Falsy(env.GEMINI_API_KEY)
               THEN /\ response' = JsonError(500, MsgNoApiKey)
                    /\ pc' = "done"
                    /\ UNCHANGED <<modelName, generationConfig>>
               ELSE IF ContentsInvalid(b.contents)
               THEN /\ response' = JsonError(400, MsgContentsRequired)
                    /\ pc' = "done"
                    /\ UNCHANGED <<modelName, generationConfig>>
               ELSE /\ modelName' = ModelNameOf(b)
                    /\ generationConfig' = SpreadConfig(b.config)
                    /\ pc' = "loop"
                    /\ UNCHANGED response
            /\ UNCHANGED thrown
    /\ UNCHANGED <<env, receivedAuthHeader, i, currentContentParts, file, getFile,
                   resultStream, stream, calls, fileService, produced, timer>>

\* request.json(), the contents check, the API-key check and the call
\* parameters (steps 2 to 4 of the handler up to the content loop).
ParseBody ==
    /\ pc = "parse"
    /\ \/ \* the body is not JSON: request.json() rejects with a SyntaxError
          /\ Catch(Err("Unexpected token in JSON"), "parse")
          /\ UNCHANGED <<body, modelName, generationConfig>>
       \/ \E b \in Bodies :
            /\ body' = b
            /\ IF ContentsInvalid(b.contents)
               THEN /\ response' = JsonError(400, MsgContentsRequired)
                    /\ pc' = "done"
                    /\ UNCHANGED <<modelName, generationConfig>>
               ELSE IF Falsy(env.GEMINI_API_KEY)
               THEN /\ response' = JsonError(500, MsgNoApiKey)
                    /\ pc' = "done"
                    /\ UNCHANGED <<modelName, generationConfig>>
               ELSE /\ modelName' = ModelNameOf(b)
                    /\ generationConfig' = SpreadConfig(b.config)
                    /\ pc' = "loop"
                    /\ UNCHANGED response
            /\ UNCHANGED thrown
    /\ UNCHANGED <<env, receivedAuthHeader, i, currentContentParts, file, getFile,
                   resultStream, stream, calls, fileService, produced, timer>>

\* ---------------------------------------------------------- content loop
PollIntervalMs == 5000

\* Variant: a switch that takes every type it does not know as text.
SwitchCaseTextDefault(type) ==
    IF type \in {"image", "audio", "video", "pdf"} THEN "binary" ELSE "text"

\* The switch on content.type: which case an item takes.
SwitchCase(type) ==
    IF type = "text" THEN "text"
    ELSE IF type \in {"image", "audio", "video", "pdf"} THEN "binary"
    ELSE "default"

\* Variant: the field check that tests mimeType only.
ItemMissingMimeOnly(content) == Falsy(content.mimeType)

\* !content.mimeType || !content.data
ItemMissingFields(content) == Falsy(content.mimeType) \/ Falsy(content.data)

\* createPartFromUri(uri, mimeType)
CreatePartFromUri(uri, mimeType) ==
    [fileData |-> [fileUri |-> uri, mimeType |-> mimeType]]

\* createUserContent(parts)
CreateUserContent(parts) == [role |-> "user", parts |-> parts]

Contents == body.contents.v
Call(rec) == calls' = Append(calls, rec)

\* One turn of `for (const content of body.contents)` up to its first await:
\* a text item is pushed, a binary item is validated, any other type is refused.
ProcessItem ==
    /\ pc = "loop"
    /\ i <= Len(Contents)
    /\ LET content == Contents[i] IN
       CASE SwitchCase(content.type) = "text" ->
              /\ currentContentParts' = Append(currentContentParts, [text |-> content.data])
              /\ i' = i + 1
              /\ UNCHANGED <<pc, response>>
         [] SwitchCase(content.type) = "binary" ->
              /\ IF ItemMissingFields(content)
                 THEN /\ response' = JsonError(400, MsgMissingFields(content.type))
                      /\ pc' = "done"
                 ELSE /\ pc' = "fetch"
                      /\ UNCHANGED response
              /\ UNCHANGED <<currentContentParts, i>>
         [] OTHER ->
              /\ response' = JsonError(400, MsgUnsupportedType)
              /\ pc' = "done"
              /\ UNCHANGED <<currentContentParts, i>>
    /\ UNCHANGED <<env, receivedAuthHeader, body, modelName, generationConfig,
                   file, getFile, resultStream, stream, thrown, calls,
                   fileService, produced, timer>>

\* await fetch(content.data).then(r => r.arrayBuffer()), then the Blob
FetchAttachment ==
    /\ pc = "fetch"
    /\ Call([op |-> "fetch", item |-> i, url |-> Contents[i].data])
    /\ \/ \E e \in Throwables : Catch(e, "fetch")
       \/ /\ pc' = "upload"
          /\ UNCHANGED <<response, thrown>>
    /\ UNCHANGED <<env, receivedAuthHeader, body, modelName, generationConfig, i,
                   currentContentParts, file, getFile, resultStream, stream,
                   fileService, produced, timer>>

\* What ai.files.upload can answer: any of name, uri, mimeType may be absent.
UploadAnswers(mimeType) ==
    LET full == [name |-> Str("files/f1"), uri |-> Str("https://files/f1"),
                 mimeType |-> mimeType]
    IN {full,
        [full EXCEPT !.name = Undefined],
        [full EXCEPT !.uri = Undefined],
        [full EXCEPT !.mimeType = Undefined],
        [name |-> Undefined, uri |-> Undefined, mimeType |-> Undefined]}

\* The status script of an uploaded file: k PROCESSING answers, then `final`.
\* The script with k = MaxChecks is a file that stays in PROCESSING for as
\* long as its status checks are followed.
FileScripts == {[k |-> k, final |-> "ACTIVE", served |-> 0] : k \in 0..MaxProcessing}
                  \cup {[k |-> 0, final |-> "FAILED", served |-> 0]}
                  \cup {[k |-> MaxChecks, final |-> "ACTIVE", served |-> 0]}

\* if (file.name == null) file.name = randomUUID()
WithName(f) == IF IsNullish(f.name) THEN [f EXCEPT !.name = Str("uuid-" \o ToString(i))]
               ELSE f

\* await ai.files.upload({file: fileBlob, config}), then the name default
UploadFile ==
    /\ pc = "upload"
    /\ Call([op |-> "files.upload", item |-> i,
             mimeType |-> Contents[i].mimeType])
    /\ \/ /\ \E e \in Throwables : Catch(e, "upload")
          /\ UNCHANGED <<file, fileService>>
       \/ /\ \E f \in UploadAnswers(Contents[i].mimeType) : file' = WithName(f)
          /\ fileService' \in FileScripts
          /\ pc' = "firstGet"
          /\ UNCHANGED <<response, thrown>>
    /\ UNCHANGED <<env, receivedAuthHeader, body, modelName, generationConfig, i,
                   currentContentParts, getFile, resultStream, stream, produced,
                   timer>>

\* while (getFile.state === 'PROCESSING')
StillProcessing(gf) == gf.state = "PROCESSING"

\* Variant: the while test gives up after MaxProcessing status checks.
AfterWhileTestGivesUp(gf) ==
    IF StillProcessing(gf) /\ fileService.served < MaxProcessing THEN "pollGet" ELSE "part"

\* Variant: the while test never waits for the file.
AfterWhileTestNoWait(gf) == "part"

\* Where the handler goes on the while test.
AfterWhileTest(gf) == IF StillProcessing(gf) THEN "pollGet" ELSE "part"

\* The file service's answer to the next status check of the uploaded file.
StatusAnswer(fs) == IF fs.served < fs.k THEN "PROCESSING" ELSE fs.final

\* await ai.files.get({name: file.name}): the call and its answer. The answer
\* carries the file's state and its metadata, which the service may have
\* completed once processing is over. `calls` keeps one entry for the status
\* checks of an item; fileService.served counts each of them. The first check
\* is followed by the while test, a check of the loop body by the timer.
\* The checks of one file are followed up to MaxChecks.
FilesGet(first) ==
    /\ fileService.served < MaxChecks
    /\ calls' = IF fileService.served = 0
                THEN Append(calls, [op |-> "files.get", item |-> i])
                ELSE calls
    /\ \/ /\ \E e \in Throwables : Catch(e, "get")
          /\ LeaveTurn
       \/ /\ \E full \in IF StatusAnswer(fileService) = "PROCESSING"
                         THEN {FALSE} ELSE BOOLEAN :
               getFile' = [name |-> file.name,
                           state |-> StatusAnswer(fileService),
                           uri |-> IF full THEN Str("https://files/f1") ELSE file.uri,
                           mimeType |-> IF full THEN Contents[i].mimeType ELSE file.mimeType]
          /\ fileService' = [fileService EXCEPT !.served = @ + 1]
          /\ timer' = [sinceCheck |-> 0,
                       gaps |-> IF fileService.served = 0 THEN <<>>
                                ELSE Append(timer.gaps, timer.sinceCheck)]
          /\ pc' = IF first THEN AfterWhileTest(getFile') ELSE "sleep"
          /\ UNCHANGED <<response, thrown, file>>


\* let getFile = await ai.files.get(...), then the first test of the while
FirstGet ==
    /\ pc = "firstGet"
    /\ FilesGet(TRUE)
    /\ UNCHANGED <<env, receivedAuthHeader, body, modelName, generationConfig, i,
                   currentContentParts, resultStream, stream, produced>>

\* loop body, first statement: getFile = await ai.files.get(...)
PollGet ==
    /\ pc = "pollGet"
    /\ FilesGet(FALSE)
    /\ UNCHANGED <<env, receivedAuthHeader, body, modelName, generationConfig, i,
                   currentContentParts, resultStream, stream, produced>>

\* loop body, second statement: await setTimeout(5000), then the while test
Sleep ==
    /\ pc = "sleep"
    /\ timer' = [timer EXCEPT !.sinceCheck = @ + PollIntervalMs]
    /\ pc' = AfterWhileTest(getFile)
    /\ UNCHANGED <<env, receivedAuthHeader, body, modelName, generationConfig, i,
                   currentContentParts, file, getFile, resultStream, response,
                   stream, thrown, calls, fileService, produced>>

\* if (file.uri && file.mimeType)
HasLocator(f) == ~ Falsy(f.uri) /\ ~ Falsy(f.mimeType)

\* after the while: push the part if the file has a uri and a mimeType; break
ProducePart ==
    /\ pc = "part"
    /\ currentContentParts' =
          IF HasLocator(file)
          THEN Append(currentContentParts, CreatePartFromUri(file.uri, file.mimeType))
          ELSE currentContentParts
    /\ i' = i + 1
    /\ pc' = "loop"
    /\ LeaveTurn
    /\ UNCHANGED <<env, receivedAuthHeader, body, modelName, generationConfig,
                   resultStream, response, stream, thrown, calls, produced>>

\* ------------------------------------------------ mode selector and invoker
\* Variant: only the last item is looked at.
HasMultimediaLastOnly(contents) == contents[Len(contents)].type # "text"

\* const hasMultimedia = body.contents.some(c => c.type !== 'text')
HasMultimedia(contents) == \E n \in 1..Len(contents) : contents[n].type # "text"

\* Variant: the selector that looks at the history only.
UseMultiTurnHistoryOnly(b) ==
    /\ ~ Falsy(b.history)
    /\ Len(b.history.v) > 0

\* body.history && body.history.length > 0 && !hasMultimedia
UseMultiTurn(b) ==
    /\ ~ Falsy(b.history)
    /\ Len(b.history.v) > 0
    /\ ~ HasMultimedia(b.contents.v)

\* ai.chats.create({model, config, history})
ChatCreateCall == [op |-> "chats.create", model |-> modelName,
                   config |-> generationConfig, history |-> body.history]

\* Variant: the message is the data of the last item instead of the first.
SendMessageCallLastItem == [op |-> "sendMessageStream",
                            message |-> body.contents.v[Len(body.contents.v)].data]

\* chat.sendMessageStream({message: body.contents[0].data})
SendMessageCall == [op |-> "sendMessageStream",
                    message |-> Contents[1].data]

\* ai.models.generateContentStream({model: "gemini-2.5-flash", contents})
GenerateCall == [op |-> "generateContentStream",
                 model |-> Str("gemini-2.5-flash"),
                 contents |-> CreateUserContent(currentContentParts),
                 config |-> Undefined]

Producer == [t |-> "producer"]

\* Variant: the multi-turn branch falls through into the single-turn call.
SelectAndInvokeFallThrough ==
    /\ pc = "loop"
    /\ i > Len(body.contents.v)
    /\ IF Len(currentContentParts) = 0
       THEN /\ response' = JsonError(400, MsgNoParts)
            /\ pc' = "done"
            /\ UNCHANGED <<resultStream, thrown, calls>>
       ELSE /\ calls' = IF UseMultiTurn(body)
                        THEN calls \o <<ChatCreateCall, SendMessageCall, GenerateCall>>
                        ELSE Append(calls, GenerateCall)
            /\ \/ /\ \E e \in Throwables : Catch(e, "generate")
                  /\ UNCHANGED resultStream
               \/ /\ resultStream' \in {Producer, Null}
                  /\ pc' = "open"
                  /\ UNCHANGED <<response, thrown>>
    /\ UNCHANGED <<env, receivedAuthHeader, body, modelName, generationConfig, i,
                   currentContentParts, file, getFile, stream, fileService,
                   produced, timer>>

\* Variant: the invoker without the empty-parts check.
SelectAndInvokeNoPartsCheck ==
    /\ pc = "loop"
    /\ i > Len(body.contents.v)
    /\ calls' = IF UseMultiTurn(body)
                THEN calls \o <<ChatCreateCall, SendMessageCall>>
                ELSE Append(calls, GenerateCall)
    /\ \/ /\ \E e \in Throwables : Catch(e, "generate")
          /\ UNCHANGED resultStream
       \/ /\ resultStream' \in {Producer, Null}
          /\ pc' = "open"
          /\ UNCHANGED <<response, thrown>>
    /\ UNCHANGED <<env, receivedAuthHeader, body, modelName, generationConfig, i,
                   currentContentParts, file, getFile, stream, fileService,
                   produced, timer>>

\* After the loop: the empty-parts check, the mode selection and the upstream
\* generation call with its answer (a chunk producer, nothing, or a failure).
SelectAndInvoke ==
    /\ pc = "loop"
    /\ i > Len(Contents)
    /\ IF Len(currentContentParts) = 0
       THEN /\ response' = JsonError(400, MsgNoParts)
            /\ pc' = "done"
            /\ UNCHANGED <<resultStream, thrown, calls>>
       ELSE /\ calls' = IF UseMultiTurn(body)
                        THEN calls \o <<ChatCreateCall, SendMessageCall>>
                        ELSE Append(calls, GenerateCall)
            /\ \/ /\ \E e \in Throwables : Catch(e, "generate")
                  /\ UNCHANGED resultStream
               \/ /\ resultStream' \in {Producer, Null}
                  /\ pc' = "open"
                  /\ UNCHANGED <<response, thrown>>
    /\ UNCHANGED <<env, receivedAuthHeader, body, modelName, generationConfig, i,
                   currentContentParts, file, getFile, stream, fileService,
                   produced, timer>>

\* ------------------------------------------------------------ stream relay
\* JSON.stringify of a string: quotes, with ", \ and newline escaped.
EscapeChar(c) == CASE c = "\"" -> "\\\""
                   [] c = "\\" -> "\\\\"
                   [] c = "\n" -> "\\n"
                   [] OTHER -> c

RECURSIVE EscapeAll(_)
EscapeAll(cs) == IF cs = <<>> THEN "" ELSE EscapeChar(Head(cs)) \o EscapeAll(Tail(cs))

JsonString(cs) == "\"" \o EscapeAll(cs) \o "\""

\* `data: ${JSON.stringify({text: chunkText})}\n\n`
SseChunk(chunkText) == "data: " \o "{\"text\":" \o JsonString(chunkText.v) \o "}" \o "\n\n"

\* `event: ${finalEvent.event}\ndata: ${JSON.stringify(finalEvent.data)}\n\n`
FinalChunk == "event: " \o "end" \o "\ndata: " \o "{\"finishReason\":\"STOP\"}" \o "\n\n"

\* Texts a chunk can carry: none, the empty string, or some characters.
ChunkTexts == {Undefined, Chars(<<>>), Chars(<<"H", "e", "l">>),
               Chars(<<"l", "o", "\"", "\n">>)}
Chunks == [text : ChunkTexts]

\* Variant: the loop body that skips a chunk only when it has no text at all.
RelayChunkDefinedOnly(records, chunk) ==
    IF chunk.text.t = "chars" THEN Append(records, SseChunk(chunk.text)) ELSE records

\* The body of the for-await loop: enqueue a record if chunk.text is truthy.
RelayChunk(records, chunk) ==
    IF ~ Falsy(chunk.text) THEN Append(records, SseChunk(chunk.text)) ELSE records

\* new ReadableStream({start}) up to start's first await, and the 200 response
\* that carries the stream. Without a producer the stream is closed at once.
OpenStream ==
    /\ pc = "open"
    /\ IF Falsy(resultStream)
       THEN /\ stream' = [state |-> "closed", records |-> <<>>]
            /\ pc' = "done"
       ELSE /\ stream' = [state |-> "open", records |-> <<>>]
            /\ pc' = "drain"
    /\ response' = SseResponse
    /\ UNCHANGED <<env, receivedAuthHeader, body, modelName, generationConfig, i,
                   currentContentParts, file, getFile, resultStream, thrown,
                   calls, fileService, produced, timer>>

\* for await (const chunk of resultStream): the producer yields a chunk
DrainChunk ==
    /\ pc = "drain"
    /\ Len(produced) < MaxChunks
    /\ \E chunk \in Chunks :
         /\ produced' = Append(produced, chunk)
         /\ stream' = [stream EXCEPT !.records = RelayChunk(@, chunk)]
    /\ UNCHANGED <<env, receivedAuthHeader, body, pc, modelName, generationConfig,
                   i, currentContentParts, file, getFile, resultStream, response,
                   thrown, calls, fileService, timer>>

\* Variant: the end record is put in front of the records already enqueued.
DrainEndInFront ==
    /\ pc = "drain"
    /\ stream' = [state |-> "closed", records |-> <<FinalChunk>> \o stream.records]
    /\ pc' = "done"
    /\ UNCHANGED <<env, receivedAuthHeader, body, modelName, generationConfig, i,
                   currentContentParts, file, getFile, resultStream, response,
                   thrown, calls, fileService, produced, timer>>

\* The producer is exhausted: the end record is enqueued and the stream closed.
DrainEnd ==
    /\ pc = "drain"
    /\ stream' = [state |-> "closed", records |-> Append(stream.records, FinalChunk)]
    /\ pc' = "done"
    /\ UNCHANGED <<env, receivedAuthHeader, body, modelName, generationConfig, i,
                   currentContentParts, file, getFile, resultStream, response,
                   thrown, calls, fileService, produced, timer>>

\* The producer throws: start() rejects and the stream errors. The handler has
\* returned already, so its catch does not run and the response stays as sent.
DrainError ==
    /\ pc = "drain"
    /\ \E e \in Throwables : thrown' = [where |-> "drain", value |-> e]
    /\ stream' = [stream EXCEPT !.state = "errored"]
    /\ pc' = "done"
    /\ UNCHANGED <<env, receivedAuthHeader, body, modelName, generationConfig, i,
                   currentContentParts, file, getFile, resultStream, response,
                   calls, fileService, produced, timer>>

\* ------------------------------------------------------------ specification
Next ==
    \/ AuthGate
    \/ ParseBody
    \/ ProcessItem
    \/ FetchAttachment
    \/ UploadFile
    \/ FirstGet
    \/ PollGet
    \/ Sleep
    \/ ProducePart
    \/ SelectAndInvoke
    \/ OpenStream
    \/ DrainChunk
    \/ DrainEnd
    \/ DrainError

Spec == Init /\ [][Next]_vars

\* ================================================================ properties
Responded == response # NoValue
Status == IF Responded THEN response.status ELSE 0
Parsed == body # NoValue
Finished == pc = "done"

\* The request's credential is missing or differs from "Bearer " + secret, or
\* the secret is unset or empty.
AuthFails ==
    \/ env.PROXY_SECRET_KEY.t # "string"
    \/ env.PROXY_SECRET_KEY.v = ""
    \/ receivedAuthHeader.t # "string"
    \/ receivedAuthHeader.v # "Bearer " \o env.PROXY_SECRET_KEY.v

ApiKeySet == env.GEMINI_API_KEY.t = "string" /\ env.GEMINI_API_KEY.v # ""

\* `contents` is a non-empty list.
ContentsListed == Parsed /\ body.contents.t = "array" /\ Len(body.contents.v) > 0

Positions == IF ContentsListed THEN 1..Len(body.contents.v) ELSE {}
ItemAt(n) == body.contents.v[n]
IsTextAt(n) == ItemAt(n).type = "text"
IsBinaryAt(n) == ItemAt(n).type \in BinaryKinds
IsUnknownAt(n) == ~ IsTextAt(n) /\ ~ IsBinaryAt(n)
LacksFieldAt(n) == IsBinaryAt(n) /\ (ItemAt(n).mimeType.t # "string" \/ ItemAt(n).data.t # "string")
WellFormedBefore(n) == \A m \in 1..(n - 1) : IsTextAt(m) \/ (IsBinaryAt(m) /\ ~ LacksFieldAt(m))

OpsCalled == {calls[n].op : n \in 1..Len(calls)}

\* C1: a request that fails the auth gate is answered 401, and no upstream call
\* of any kind is made at any point of its handling.
C1_UnauthorizedNoUpstream ==
    AuthFails => /\ calls = <<>>
                 /\ pc \in {"auth", "done"}
                 /\ Finished => Status = 401 /\ response.error = MsgUnauthorized

\* C1 witness: the secret is empty and the header is the matching "Bearer ",
\* and the request was rejected.
C1_Witness ==
    /\ Finished /\ Status = 401
    /\ env.PROXY_SECRET_KEY = Str("") /\ receivedAuthHeader = Str("Bearer ")

\* C2: an authenticated request whose `contents` is absent, not a list or an
\* empty list is answered 400, and no upstream call is made.
C2_BadContents400 ==
    (Parsed /\ ~ ContentsListed) =>
        /\ Status = 400
        /\ response.error = MsgContentsRequired
        /\ calls = <<>>
        /\ Finished

\* C2 witness: an empty list was refused although the API key is not set.
C2_Witness ==
    /\ Parsed /\ body.contents = Arr(<<>>) /\ Status = 400
    /\ ~ ApiKeySet

HistoryGiven == Parsed /\ body.history.t = "array" /\ Len(body.history.v) > 0
AllText == \A n \in Positions : IsTextAt(n)
MultiTurnChosen == "sendMessageStream" \in OpsCalled
SingleTurnChosen == "generateContentStream" \in OpsCalled

\* C5: multi-turn mode is chosen iff history is present and non-empty and no
\* item is non-text; every other request that reaches generation is single-turn.
C5_ModeSelector ==
    (MultiTurnChosen \/ SingleTurnChosen) =>
        /\ MultiTurnChosen <=> (HistoryGiven /\ AllText)
        /\ SingleTurnChosen <=> ~ (HistoryGiven /\ AllText)
        /\ MultiTurnChosen <=> "chats.create" \in OpsCalled

\* C5 witness: single-turn mode was chosen for a request with a history and an
\* attachment.
C5_Witness ==
    /\ SingleTurnChosen /\ HistoryGiven /\ ~ AllText

\* The records a chunk sequence is to be relayed as: one data record for each
\* chunk whose text is a non-empty string, in the order of the chunks.
RECURSIVE DataRecords(_)
DataRecords(chunks) ==
    IF chunks = <<>> THEN <<>>
    ELSE LET c == Head(chunks)
             carries == c.text.t = "chars" /\ Len(c.text.v) > 0
         IN (IF carries THEN <<SseChunk(c.text)>> ELSE <<>>) \o DataRecords(Tail(chunks))

EndRecord == "event: end\ndata: {\"finishReason\":\"STOP\"}\n\n"
HelChunk == [text |-> Chars(<<"H", "e", "l">>)]
QuoteChunk == [text |-> Chars(<<"l", "o", "\"", "\n">>)]

\* C6: while the producer is drained the stream holds one data record per chunk
\* with non-empty text, in the order of the chunks; when the producer completes
\* without error, exactly one end record follows them and the stream is closed.
C6_RelayInOrder ==
    /\ stream.state = "open" => stream.records = DataRecords(produced)
    /\ (stream.state = "closed" /\ resultStream = Producer) =>
          /\ stream.records = DataRecords(produced) \o <<EndRecord>>
          /\ Finished
    /\ (stream.state = "closed" /\ produced = <<HelChunk, QuoteChunk>>) =>
          stream.records = <<"data: {\"text\":\"Hel\"}\n\n",
                             "data: {\"text\":\"lo\\\"\\n\"}\n\n",
                             EndRecord>>

\* C6 witness: two chunks were produced, one of them with an empty text, and
\* the closed stream holds one data record and the end record.
C6_Witness ==
    /\ stream.state = "closed"
    /\ Len(produced) = 2 /\ produced[1].text = Chars(<<>>)
    /\ Len(stream.records) = 2

\* C7: for k PROCESSING answers followed by another answer, k+1 status checks
\* are issued before the part is produced, and at least the 5-second interval
\* passes between every two consecutive status checks.
C7_PollCountAndInterval ==
    pc = "part" =>
        /\ fileService.served = fileService.k + 1
        /\ Len(timer.gaps) = fileService.k
        /\ \A n \in 1..Len(timer.gaps) : timer.gaps[n] >= PollIntervalMs

EndPositions == {n \in 1..Len(stream.records) : stream.records[n] = EndRecord}

\* C8 as stated: in a 200 response the end record is emitted exactly once and
\* is last; the stream never closes or fails without it.
C8_Original ==
    Status = 200 =>
        /\ EndPositions \subseteq {Len(stream.records)}
        /\ stream.state \in {"closed", "errored"} => EndPositions # {}

\* C8 amended: in a 200 response the end record is emitted at most once and,
\* when emitted, is the last record; a stream closed after its producer was
\* drained ends with it; the stream closes without it only when no producer
\* was obtained, and fails without it only when draining the producer raises.
C8_EndRecordLast ==
    Status = 200 =>
        /\ EndPositions \subseteq {Len(stream.records)}
        /\ (stream.state = "closed" /\ resultStream = Producer) =>
              EndPositions = {Len(stream.records)}
        /\ (stream.state = "closed" /\ resultStream # Producer) =>
              stream.records = <<>>
        /\ stream.state = "errored" => (thrown.where = "drain" /\ EndPositions = {})
        /\ stream.state = "open" => EndPositions = {}

\* C8 witness: a closed stream of two data records and the end record.
C8_Witness ==
    /\ Status = 200 /\ stream.state = "closed"
    /\ Len(stream.records) = 3 /\ stream.records[3] = EndRecord

\* C9: an exception raised during fetch, upload, status polling, generation
\* invocation or stream draining gives a 500 whose error is the message of an
\* Error and otherwise the string form of the thrown value.
C9_ExceptionTo500 ==
    thrown.where \in {"fetch", "upload", "get", "generate", "drain"} =>
        /\ Status = 500
        /\ response.error = IF thrown.value.isError THEN thrown.value.message
                            ELSE thrown.value.str

GenerateEntries == {n \in 1..Len(calls) : calls[n].op = "generateContentStream"}

\* C10: in single-turn mode the generation call carries all assembled parts as
\* one user-role content, the request's generation configuration, and the
\* model the caller named (the default model when none was named).
C10_SingleTurnArguments ==
    \A n \in GenerateEntries :
        /\ calls[n].contents = [role |-> "user", parts |-> currentContentParts]
        /\ calls[n].model = IF body.model.t = "string" /\ body.model.v # ""
                            THEN body.model ELSE Str("gemini-2.5-flash")
        /\ \/ calls[n].config = generationConfig
           \/ (calls[n].config = Undefined /\ body.config = Undefined)

OpCount(op) == Cardinality({n \in 1..Len(calls) : calls[n].op = op})
EntryOf(op) == calls[CHOOSE n \in 1..Len(calls) : calls[n].op = op]
ModelSupplied == body.model.t = "string" /\ body.model.v # ""
ConfigEntries == IF body.config.t = "object" THEN body.config.v ELSE {}

\* C11: in multi-turn mode one session is opened, with the supplied history,
\* the generation configuration and the caller's or the default model, and one
\* message is sent on it, which is the text of the first content item only.
C11_MultiTurnArguments ==
    MultiTurnChosen =>
        /\ OpCount("chats.create") = 1
        /\ OpCount("sendMessageStream") = 1
        /\ OpCount("generateContentStream") = 0
        /\ EntryOf("chats.create").history = body.history
        /\ EntryOf("chats.create").config = [t |-> "object", v |-> ConfigEntries]
        /\ EntryOf("chats.create").model =
              IF ModelSupplied THEN body.model ELSE Str("gemini-2.5-flash")
        /\ EntryOf("sendMessageStream").message = ItemAt(1).data

\* C11 witness: a session was opened for two text items of different text,
\* with a model and a configuration supplied.
C11_Witness ==
    /\ MultiTurnChosen /\ Len(body.contents.v) = 2
    /\ ItemAt(1).data # ItemAt(2).data
    /\ ModelSupplied /\ body.config # Undefined

GenerationOps == {"chats.create", "sendMessageStream", "generateContentStream"}
Processed == ContentsListed /\ ApiKeySet /\ i > Len(body.contents.v)

\* C12: when every item has been processed and no prompt part resulted, the
\* request is answered 400 and no generation call of either kind is made.
C12_NoParts400 ==
    /\ (Processed /\ Len(currentContentParts) = 0) =>
          /\ OpsCalled \cap GenerationOps = {}
          /\ Finished => (Status = 400 /\ response.error = MsgNoParts)
    /\ (Responded /\ response.error = MsgNoParts) =>
          (Processed /\ Len(currentContentParts) = 0)

\* C12 witness: the only item was an attachment that was polled and dropped.
C12_Witness ==
    /\ Finished /\ Status = 400 /\ response.error = MsgNoParts
    /\ "files.get" \in OpsCalled

\* C16: without GEMINI_API_KEY an authenticated request with a non-empty
\* contents list is answered 500 with the fixed message and no upstream call is
\* made; the 401 and the empty-contents 400 come before this 500.
C16_NoApiKey500 ==
    ~ ApiKeySet =>
        /\ calls = <<>>
        /\ (Finished /\ ContentsListed) =>
              (Status = 500 /\ response.error = MsgNoApiKey)
        /\ (Finished /\ AuthFails) => Status = 401
        /\ (Finished /\ Parsed /\ ~ ContentsListed) => Status = 400

\* C16 witness: a request with an attachment was answered with the 500 of the
\* missing API key.
C16_Witness ==
    /\ Finished /\ ~ ApiKeySet /\ ContentsListed
    /\ IsBinaryAt(1) /\ ~ LacksFieldAt(1)
    /\ Status = 500 /\ response.error = "API Key is not configured on the server"

\* C17: whenever the multi-turn branch is taken the first content item is a
\* text item, and the message sent is that item's text.
C17_MultiTurnFirstIsText ==
    MultiTurnChosen =>
        /\ ItemAt(1).type = "text"
        /\ EntryOf("sendMessageStream").message \in {it.data : it \in TextItems}

\* C17 witness: the multi-turn branch was taken for a list of two items.
C17_Witness ==
    /\ MultiTurnChosen /\ Len(body.contents.v) = 2 /\ Status = 200

GenerationCalls == OpCount("sendMessageStream") + OpCount("generateContentStream")

\* C19: a request makes at most one generation call, never both kinds; the call
\* is made only after every content item was processed; a 200 is returned only
\* after the call has returned; a request answered 401 or 400 made no such call.
C19_OneGenerationCall ==
    /\ GenerationCalls <= 1
    /\ OpCount("chats.create") = OpCount("sendMessageStream")
    /\ GenerationCalls = 1 => (Processed /\ Len(currentContentParts) > 0)
    /\ Status = 200 => (GenerationCalls = 1 /\ resultStream \in {Producer, Null})
    /\ resultStream # NoValue => GenerationCalls = 1
    /\ Status \in {400, 401} => GenerationCalls = 0

\* C19 witness: a 200 was returned after one multi-turn call and the producer
\* has yielded a chunk.
C19_Witness ==
    /\ Status = 200 /\ OpCount("sendMessageStream") = 1
    /\ OpCount("generateContentStream") = 0 /\ Len(produced) = 1

\* The file service reports both a uri and a media type in its latest answer.
ReadyReport == getFile.uri.t = "string" /\ getFile.mimeType.t = "string"

\* C13: once the polled status is no longer PROCESSING, a part referencing the
\* file is appended iff the file service reports both a uri and a media type
\* as of that answer; otherwise nothing is appended; in both cases no error is
\* raised and the loop goes on with the next item.
C13_PartIffReadyReport ==
    [][pc = "part" =>
         /\ ReadyReport =>
               currentContentParts' = Append(currentContentParts,
                   [fileData |-> [fileUri |-> getFile.uri, mimeType |-> getFile.mimeType]])
         /\ ~ ReadyReport => currentContentParts' = currentContentParts
         /\ i' = i + 1
         /\ pc' = "loop"
         /\ thrown' = NoThrow /\ response' = NoValue]_vars

ItemOps == {"fetch", "files.upload", "files.get"}
ItemEntries == {n \in 1..Len(calls) : calls[n].op \in ItemOps}
OpsOfItem(m) == {calls[n].op : n \in {e \in ItemEntries : calls[e].item = m}}
OpRank(op) == CASE op = "fetch" -> 1 [] op = "files.upload" -> 2 [] OTHER -> 3

\* The parts are those of the items, in the order of the items: a text item
\* gives its text part, a binary item a file part or nothing.
RECURSIVE PartsFollow(_, _)
PartsFollow(parts, items) ==
    IF items = <<>> THEN parts = <<>>
    ELSE IF Head(items).type = "text"
    THEN /\ parts # <<>>
         /\ Head(parts) = [text |-> Head(items).data]
         /\ PartsFollow(Tail(parts), Tail(items))
    ELSE \/ PartsFollow(parts, Tail(items))
         \/ /\ parts # <<>>
            /\ "fileData" \in DOMAIN Head(parts)
            /\ PartsFollow(Tail(parts), Tail(items))

InLoop == ContentsListed /\ ApiKeySet

\* The calls made for the items are in the order of the items, each item's
\* fetch before its upload before its status checks, and every binary item
\* behind the loop position has had all three.
SequentialSoFar ==
    InLoop =>
        /\ \A a, b \in ItemEntries :
              a < b => \/ calls[a].item < calls[b].item
                       \/ /\ calls[a].item = calls[b].item
                          /\ OpRank(calls[a].op) < OpRank(calls[b].op)
        /\ \A n \in ItemEntries : calls[n].item <= i
        /\ \A m \in 1..(i - 1) : IsBinaryAt(m) => OpsOfItem(m) = ItemOps
        /\ PartsFollow(currentContentParts, SubSeq(body.contents.v, 1, i - 1))

\* C14: attachments are resolved one after the other in list order: the loop
\* leaves a binary item only after its upload and a status check that found a
\* state other than PROCESSING, the next item's fetch comes after that, and the
\* parts are in the order of their items.
C14_SequentialResolution ==
    [][/\ SequentialSoFar'
       /\ (InLoop /\ i' # i /\ IsBinaryAt(i)) =>
             /\ i' = i + 1
             /\ OpsOfItem(i) = ItemOps
             /\ getFile # NoValue
             /\ getFile.state # "PROCESSING"]_vars

\* C14 witness: the fetch of a second attachment is about to start and the
\* first attachment, fetched, uploaded and polled, has given its part.
C14_Witness ==
    /\ pc = "fetch" /\ i = 2 /\ IsBinaryAt(1)
    /\ Len(calls) = 3 /\ Len(currentContentParts) = 1

InvalidAt(n) == LacksFieldAt(n) \/ IsUnknownAt(n)
ItemRejected ==
    /\ Finished /\ Status = 400
    /\ response.error \notin {MsgContentsRequired, MsgNoParts}

\* C18: when the item at position k causes the 400, every attachment before k
\* has been fetched, uploaded and polled, and no call was made for k or for
\* any item after it.
C18_ValidationInterleaved ==
    ItemRejected =>
        \E k \in Positions :
            /\ InvalidAt(k)
            /\ \A m \in 1..(k - 1) : ~ InvalidAt(m)
            /\ \A m \in 1..(k - 1) : IsBinaryAt(m) => OpsOfItem(m) = ItemOps
            /\ \A n \in 1..Len(calls) : calls[n].op \in ItemOps /\ calls[n].item < k

\* C18 witness: the second item, of an unknown type, was refused after the
\* first item, an attachment, was fetched, uploaded and polled.
C18_Witness ==
    /\ ItemRejected /\ Len(body.contents.v) = 2
    /\ IsBinaryAt(1) /\ IsUnknownAt(2)
    /\ Len(calls) = 3

PollPcs == {"firstGet", "pollGet", "sleep"}
AllWellFormed == InLoop /\ WellFormedBefore(Len(body.contents.v) + 1)
Attachments == {m \in Positions : IsBinaryAt(m)}

\* C15 as stated: a request with attachments gets a response only if the file
\* service has reported a state other than PROCESSING for every attachment
\* (taken for requests that pass the gate and whose items are all well formed).
C15_Original ==
    (Responded /\ AllWellFormed /\ Attachments # {}) =>
        \A m \in Attachments : i > m

\* C15: the poll loop has no limit on time or on the number of status checks.
\* It is left only by an answer other than PROCESSING or by an exception of a
\* status check (which gives the 500); a 200 response is reached only after
\* every attachment was reported in a state other than PROCESSING; while the
\* answers are PROCESSING no response is produced, every answered check counts
\* one more, and the handler goes from check to timer to check again.
C15_PollLoopUnbounded ==
    [][/\ pc \in PollPcs => ~ Responded
       /\ (pc \in PollPcs /\ pc' \notin PollPcs) =>
             \/ pc' = "part" /\ thrown' = NoThrow /\ ~ Responded'
                  /\ (IF pc = "sleep" THEN getFile ELSE getFile').state # "PROCESSING"
             \/ pc' = "done" /\ thrown' # NoThrow /\ Status' = 500
                  /\ pc \in {"firstGet", "pollGet"}
       /\ (pc \in {"firstGet", "pollGet"} /\ thrown' = NoThrow) =>
             /\ fileService'.served = fileService.served + 1
             /\ getFile'.state = "PROCESSING" => pc' = (IF pc = "firstGet" THEN "pollGet" ELSE "sleep")
       /\ (pc = "sleep" /\ getFile.state = "PROCESSING") =>
             pc' = "pollGet" /\ fileService' = fileService
       /\ Status' = 200 => \A m \in Attachments : i' > m]_vars

\* C15 witness: a file has answered PROCESSING to every one of the MaxChecks
\* status checks followed, and the request is still without a response.
C15_Witness ==
    /\ pc = "pollGet" /\ ~ Responded
    /\ fileService.served = MaxChecks
    /\ getFile.state = "PROCESSING"
    /\ Len(timer.gaps) = MaxChecks - 1

====
